---- MODULE Spec2Model ----
(***************************************************************************)
(* Ray-on-Spark cluster launcher.                                          *)
(*                                                                         *)
(*  Part 1 (SpecLock): the worker-node startup barrier of                  *)
(*    python/ray/util/spark/utils.py,                                      *)
(*    _acquire_lock_for_ray_worker_node_startup, run by several node       *)
(*    bootstrap processes of one host on one lock file.                    *)
(*  Part 2 (SpecCluster): the cluster lifecycle controller (create,        *)
(*    shutdown, the active-cluster slot and its lock), the Databricks      *)
(*    idle watcher of python/ray/util/spark/databricks_hook.py and the     *)
(*    background-job liveness watcher.                                     *)
(*  Part 3 (SpecSizer): the resource calculations of utils.py,             *)
(*    _calc_mem_per_ray_worker_node and get_target_spark_tasks, applied    *)
(*    to arguments drawn from bounded sets, and the worker nodes a create  *)
(*    with an explicit node count ends up with.                            *)
(*  Part 4 (SpecHook): the selection of the platform hook,                 *)
(*    _get_start_hook of databricks_hook.py, with its one-entry cache, and *)
(*    the decisions of the Databricks hook's on_cluster_created.           *)
(*  Part 5 (SpecPort): the port selection of utils.py,                     *)
(*    get_random_unused_port, applied to the draws of the random           *)
(*    generator and the answers of the port probe.                         *)
(***************************************************************************)
EXTENDS Integers, FiniteSets, Sequences, TLC

(***************************************************************************)
(* Bounds of the model.                                                    *)
(***************************************************************************)
\* node-bootstrap processes started on one host
NumProcs == 3
\* utils.py:392 sets max_lock_iter = 600; the model runs the same loop with a
\* small iteration budget
max_lock_iter == 2
\* cluster handles one driver process creates in a run
MaxHandles == 2

\* largest physical_mem_bytes / shared_mem_bytes passed to the memory
\* calculation
MaxMemBytes == 12
\* num_task_slots ranges over -MaxSlots..MaxSlots
MaxSlots == 3
\* largest total_cpus / total_gpus / total_*_bytes, and largest magnitude of
\* num_spark_tasks, passed to the node-count resolution
MaxTotal == 3
\* largest max_concurrent_tasks the host scheduler reports
MaxConcurrentTasks == 2
\* calls of _get_start_hook made in one process
MaxHookCalls == 3
\* max_port ranges over min_port..min_port + MaxPortSpan
MaxPortSpan == 1
\* largest max_retries passed to the port selection
MaxRetries == 2

Procs == 1..NumProcs
Handles == 1..MaxHandles

VARIABLES
    \* ---- startup barrier, one entry per bootstrap process
    lpc,          \* position of the process in the function
    lock_iter,    \* iterations of "for _ in range(max_lock_iter)" used so far
    fd,           \* the descriptor os.open returned: "none", "open", "closed"
    flock_held,   \* the process's open file description holds the flock
    lock_fd,      \* the local lock_fd: "unset", "fd" or "None"
    releaser,     \* thread hold_lock_for_10s_and_release
    file_exists,  \* the lock file path exists
    \* ---- cluster lifecycle controller
    state,              \* lifecycle state of each handle
    is_shutdown,        \* the handle's is_shutdown flag
    job,                \* the handle's background job on the host scheduler
    head,               \* the head node process of the handle
    workers,            \* the worker node processes of the handle are alive
    cancels,            \* cancel requests issued for the handle's job
    teardowns,          \* teardowns (past the SHUTDOWN check) of the handle
    active_ray_cluster, \* the process-global slot: a handle, or 0 for None
    rwlock_owner,       \* thread owning _active_ray_cluster_rwlock, or NoThread
    rwlock_depth,       \* its nesting depth (the lock is re-entrant)
    ray_address,        \* the RAY_ADDRESS environment entry: a handle, or 0
    pc,                 \* position of each thread
    tgt,                \* the handle a thread's shutdown call works on
    res,                \* outcome of the user's last call
    last_call,          \* the user's last completed call
    \* ---- resource calculations
    call,               \* the function being applied and its arguments
    ret,                \* what the call returned or raised
    \* ---- platform hook selection
    environ_hook,       \* os.environ[RAY_ON_SPARK_START_HOOK], or None
    databricks_runtime, \* "DATABRICKS_RUNTIME_VERSION" in os.environ
    hook_cache,         \* the entry of lru_cache(maxsize=1), or None
    hook_objects,       \* hook objects constructed so far
    hook_ret,           \* what the latest call of _get_start_hook returned
    hook_calls          \* calls of _get_start_hook made so far

lockVars == <<lpc, lock_iter, fd, flock_held, lock_fd, releaser, file_exists>>
clusterVars == <<state, is_shutdown, job, head, workers, cancels, teardowns,
                 active_ray_cluster, rwlock_owner, rwlock_depth,
                 ray_address, pc, tgt, res, last_call>>
sizerVars == <<call, ret>>
hookVars == <<environ_hook, databricks_runtime, hook_cache, hook_objects, hook_ret,
              hook_calls>>
vars == <<lockVars, clusterVars, sizerVars, hookVars>>

(***************************************************************************)
(* Part 1: the startup barrier.                                            *)
(***************************************************************************)

LockInit ==
    /\ lpc = [p \in Procs |-> "open"]
    /\ lock_iter = [p \in Procs |-> 0]
    /\ fd = [p \in Procs |-> "none"]
    /\ flock_held = [p \in Procs |-> FALSE]
    /\ lock_fd = [p \in Procs |-> "unset"]
    /\ releaser = [p \in Procs |-> "none"]
    /\ file_exists = FALSE

\* fcntl.flock(fd, LOCK_SH | LOCK_NB): a shared lock is refused by nobody here
FlockGrantedShared(p) == TRUE

\* fcntl.flock(fd, fcntl.LOCK_EX | fcntl.LOCK_NB): granted unless another open
\* file description of the same file holds the lock
FlockGranted(p) == \A q \in Procs \ {p} : ~flock_held[q]

\* fd = os.open(file_path, O_RDWR | O_CREAT | O_TRUNC)
OsOpen(p) ==
    /\ lpc[p] = "open"
    /\ fd' = [fd EXCEPT ![p] = "open"]
    /\ file_exists' = TRUE
    /\ lock_iter' = [lock_iter EXCEPT ![p] = 0]
    /\ lpc' = [lpc EXCEPT ![p] = "flock"]
    /\ UNCHANGED <<flock_held, lock_fd, releaser>>
    /\ UNCHANGED <<clusterVars, sizerVars, hookVars>>

\* os.open raises: the handler's os.close(fd) reads the unbound local fd, and
\* that error leaves the function
OsOpenFails(p) ==
    /\ lpc[p] = "open"
    /\ lpc' = [lpc EXCEPT ![p] = "failed"]
    /\ UNCHANGED <<lock_iter, fd, flock_held, lock_fd, releaser, file_exists>>
    /\ UNCHANGED <<clusterVars, sizerVars, hookVars>>

\* one iteration of the loop in which flock succeeds: return fd
FlockAcquire(p) ==
    /\ lpc[p] = "flock"
    /\ FlockGranted(p)
    /\ flock_held' = [flock_held EXCEPT ![p] = TRUE]
    /\ lock_fd' = [lock_fd EXCEPT ![p] = "fd"]
    /\ lpc' = [lpc EXCEPT ![p] = "start_thread"]
    /\ UNCHANGED <<lock_iter, fd, releaser, file_exists>>
    /\ UNCHANGED <<clusterVars, sizerVars, hookVars>>

\* one iteration in which flock raises BlockingIOError: pass, sleep 1 s; after
\* the last iteration the loop ends and TimeoutError is raised
FlockRefused(p) ==
    /\ lpc[p] = "flock"
    /\ ~FlockGranted(p)
    /\ lock_iter' = [lock_iter EXCEPT ![p] = @ + 1]
    /\ lpc' = [lpc EXCEPT ![p] =
                 IF lock_iter[p] + 1 = max_lock_iter THEN "raise_timeout" ELSE "flock"]
    /\ UNCHANGED <<fd, flock_held, lock_fd, releaser, file_exists>>
    /\ UNCHANGED <<clusterVars, sizerVars, hookVars>>

\* "except Exception: os.close(fd)" catches the TimeoutError raised inside the
\* try block; acquire_lock then returns None, which the caller stores in lock_fd
ExceptException(p) ==
    /\ lpc[p] = "raise_timeout"
    /\ fd' = [fd EXCEPT ![p] = "closed"]
    /\ lock_fd' = [lock_fd EXCEPT ![p] = "None"]
    /\ lpc' = [lpc EXCEPT ![p] = "start_thread"]
    /\ UNCHANGED <<lock_iter, flock_held, releaser, file_exists>>
    /\ UNCHANGED <<clusterVars, sizerVars, hookVars>>

\* threading.Thread(target=hold_lock_for_10s_and_release).start(), then the
\* function returns to the node-bootstrap routine
StartReleaserAndReturn(p) ==
    /\ lpc[p] = "start_thread"
    /\ releaser' = [releaser EXCEPT ![p] = "sleeping"]
    /\ lpc' = [lpc EXCEPT ![p] = "returned"]
    /\ UNCHANGED <<lock_iter, fd, flock_held, lock_fd, file_exists>>
    /\ UNCHANGED <<clusterVars, sizerVars, hookVars>>

\* a LOCK_UN that leaves the lock where it was
FlockAfterUnlockKept(held) == held

\* fcntl.flock(lock_fd, fcntl.LOCK_UN)
FlockAfterUnlock(held) == FALSE

\* hold_lock_for_10s_and_release after its sleep: flock(lock_fd, LOCK_UN) and
\* os.close(lock_fd); with lock_fd = None flock raises and the thread ends
HoldLockAndRelease(p) ==
    /\ releaser[p] = "sleeping"
    /\ IF lock_fd[p] = "fd"
         THEN /\ flock_held' = [flock_held EXCEPT ![p] = FlockAfterUnlock(@)]
              /\ fd' = [fd EXCEPT ![p] = "closed"]
              /\ releaser' = [releaser EXCEPT ![p] = "done"]
         ELSE /\ releaser' = [releaser EXCEPT ![p] = "raised"]
              /\ UNCHANGED <<fd, flock_held>>
    /\ UNCHANGED <<lpc, lock_iter, lock_fd, file_exists>>
    /\ UNCHANGED <<clusterVars, sizerVars, hookVars>>

LockStep(p) ==
    \/ OsOpen(p)
    \/ OsOpenFails(p)
    \/ FlockAcquire(p)
    \/ FlockRefused(p)
    \/ ExceptException(p)
    \/ StartReleaserAndReturn(p)
    \/ HoldLockAndRelease(p)

(***************************************************************************)
(* Part 3: the resource calculations (placed here because create uses      *)
(* the node-count resolution).                                             *)
(*                                                                         *)
(* Python's float arithmetic is modelled with exact rationals: 0.8 is      *)
(* 4/5, a ratio r is a pair <<n, d>> standing for n/d with d > 0, and      *)
(* int() truncates toward zero.  For the byte counts of the model the      *)
(* float results and the exact ones have the same integer part.            *)
(***************************************************************************)

\* no memory held back
MEMORY_BUFFER_OFFSET_ONE == <<1, 1>>

\* utils.py:11, _MEMORY_BUFFER_OFFSET = 0.8
MEMORY_BUFFER_OFFSET == <<4, 5>>
\* utils.py:12, _HEAP_TO_SHARED_RATIO = 0.4
HEAP_TO_SHARED_RATIO == <<2, 5>>

\* an optional argument: None, or a value
None == <<>>
Some(v) == <<v>>

\* a call that returned v (a tuple of integers), and a call that raised e
Ok(v) == [kind |-> "ok", val |-> v]
Raise(e) == [kind |-> e, val |-> <<>>]

Abs(x) == IF x < 0 THEN -x ELSE x

\* int(a / b) for integers a and b # 0: the quotient truncated toward zero
IntOfQuotient(a, b) ==
    IF (a >= 0) = (b > 0) THEN Abs(a) \div Abs(b) ELSE -(Abs(a) \div Abs(b))

\* the quotient rounded down instead of up
FloorOfQuotient(a, b) == a \div b

\* int(math.ceil(a / b)) for integers a and b > 0
CeilOfQuotient(a, b) == -((-a) \div b)

\* max of a non-empty tuple of integers
MaxOf(seq) == CHOOSE m \in {seq[i] : i \in DOMAIN seq} : \A i \in DOMAIN seq : seq[i] <= m

\* int(mem_bytes / num_task_slots * _MEMORY_BUFFER_OFFSET), num_task_slots # 0
available_mem_per_node(mem_bytes, num_task_slots) ==
    IntOfQuotient(mem_bytes * MEMORY_BUFFER_OFFSET[1],
                  num_task_slots * MEMORY_BUFFER_OFFSET[2])

\* int(min(available_physical_mem_per_node * heap_to_object_store_ratio,
\*         available_shared_mem_per_node))
object_store_bytes(available_physical_mem_per_node, available_shared_mem_per_node,
                   heap_to_object_store_ratio) ==
    LET n == heap_to_object_store_ratio[1]
        d == heap_to_object_store_ratio[2]
    IN  IF available_physical_mem_per_node * n <= available_shared_mem_per_node * d
          THEN IntOfQuotient(available_physical_mem_per_node * n, d)
          ELSE available_shared_mem_per_node

\* _calc_mem_per_ray_worker_node: the division by num_task_slots raises
\* ZeroDivisionError for 0 and nothing else is tested
calc_mem_per_ray_worker_node(num_task_slots, physical_mem_bytes, shared_mem_bytes,
                             heap_to_object_store_ratio) ==
    IF num_task_slots = 0
      THEN Raise("ZeroDivisionError")
      ELSE LET available_physical_mem_per_node ==
                   available_mem_per_node(physical_mem_bytes, num_task_slots)
               available_shared_mem_per_node ==
                   available_mem_per_node(shared_mem_bytes, num_task_slots)
               object_store ==
                   object_store_bytes(available_physical_mem_per_node,
                                      available_shared_mem_per_node,
                                      heap_to_object_store_ratio)
               heap_mem_bytes == available_physical_mem_per_node - object_store
           IN  Ok(<<heap_mem_bytes, object_store>>)

\* max(*calculated_limits) with a list of one integer: max(1) raises
\* TypeError, 'int' object is not iterable
ResolveOfOne(calculated_limits) == Raise("TypeError")

\* _resolve_target_spark_tasks: max(*calculated_limits)
resolve_target_spark_tasks(calculated_limits) ==
    IF Len(calculated_limits) = 1
      THEN ResolveOfOne(calculated_limits)
      ELSE Ok(<<MaxOf(calculated_limits)>>)

\* one "if total_X is not None" block of get_target_spark_tasks: a total that
\* is not positive raises ValueError, else ceil(total / per_node) is appended;
\* an exception raised by an earlier block stands
AppendCandidate(calculated_tasks, total, per_node) ==
    IF calculated_tasks.kind # "ok" \/ total = None
      THEN calculated_tasks
      ELSE IF total[1] <= 0 THEN Raise("ValueError")
      ELSE IF per_node = 0 THEN Raise("ZeroDivisionError")
      ELSE Ok(Append(calculated_tasks.val, CeilOfQuotient(total[1], per_node)))

\* an explicit count that is accepted whatever its sign
ExplicitCountUnchecked(num_spark_tasks, max_concurrent_tasks) ==
    IF num_spark_tasks = -1 THEN Ok(<<max_concurrent_tasks>>)
    ELSE Ok(<<num_spark_tasks>>)

\* the "if num_spark_tasks is not None" branch of get_target_spark_tasks
ExplicitCount(num_spark_tasks, max_concurrent_tasks) ==
    IF num_spark_tasks = -1 THEN Ok(<<max_concurrent_tasks>>)
    ELSE IF num_spark_tasks <= 0 THEN Raise("ValueError")
    ELSE Ok(<<num_spark_tasks>>)

\* a resolution that validates the totals before it looks at the explicit count
GetTargetSparkTasksTotalsChecked(max_concurrent_tasks, num_spark_task_cpus, num_spark_task_gpus, ray_worker_node_heap_memory_bytes, ray_worker_node_object_store_memory_bytes, num_spark_tasks, total_cpus, total_gpus, total_heap_memory_bytes, total_object_store_memory_bytes) ==
    LET t0 == Ok(<<1>>)
        t1 == AppendCandidate(t0, total_cpus, num_spark_task_cpus)
        t2 == AppendCandidate(t1, total_gpus, num_spark_task_gpus)
        t3 == AppendCandidate(t2, total_heap_memory_bytes,
                              ray_worker_node_heap_memory_bytes)
        calculated_tasks ==
              AppendCandidate(t3, total_object_store_memory_bytes,
                              ray_worker_node_object_store_memory_bytes)
    IN  IF calculated_tasks.kind # "ok" THEN calculated_tasks
        ELSE IF num_spark_tasks # None
          THEN ExplicitCount(num_spark_tasks[1], max_concurrent_tasks)
        ELSE resolve_target_spark_tasks(calculated_tasks.val)

\* utils.py:254-320: the explicit count, when given, decides alone; else the
\* candidates of the provided totals are collected and their maximum taken
get_target_spark_tasks(max_concurrent_tasks, num_spark_task_cpus, num_spark_task_gpus, ray_worker_node_heap_memory_bytes, ray_worker_node_object_store_memory_bytes, num_spark_tasks, total_cpus, total_gpus, total_heap_memory_bytes, total_object_store_memory_bytes) ==
    IF num_spark_tasks # None
      THEN ExplicitCount(num_spark_tasks[1], max_concurrent_tasks)
      ELSE LET t0 == Ok(<<1>>)
               t1 == AppendCandidate(t0, total_cpus, num_spark_task_cpus)
               t2 == AppendCandidate(t1, total_gpus, num_spark_task_gpus)
               t3 == AppendCandidate(t2, total_heap_memory_bytes,
                                     ray_worker_node_heap_memory_bytes)
               calculated_tasks ==
                     AppendCandidate(t3, total_object_store_memory_bytes,
                                     ray_worker_node_object_store_memory_bytes)
           IN  IF calculated_tasks.kind # "ok"
                 THEN calculated_tasks
                 ELSE resolve_target_spark_tasks(calculated_tasks.val)

\* the arguments the model applies the calculations to
SlotCounts == (-MaxSlots)..MaxSlots
MemBytes == 0..MaxMemBytes
\* heap_to_object_store_ratio: 0, the default 0.4, 1, and values outside
\* [0, 1], which the function takes like any other
Ratios == {<<0, 1>>, HEAP_TO_SHARED_RATIO, <<1, 1>>, <<3, 2>>, <<-1, 2>>}
OptCounts == {None} \cup {Some(n) : n \in (-MaxTotal)..MaxTotal}
OptTotals == {None} \cup {Some(n) : n \in 0..MaxTotal}
ConcurrentTasks == 1..MaxConcurrentTasks
\* spark.task.cpus, and the per-task GPU amount (0 on a cluster without GPUs)
TaskCpus == {1, 2}
TaskGpus == {0, 1}
\* per-node heap and object-store bytes
NodeHeapBytes == {2}
NodeObjectStoreBytes == {3}

NoCall == [fn |-> "none", args |-> <<>>]
NoRet == Raise("none")

SizerInit == call = NoCall /\ ret = NoRet

\* a call of _calc_mem_per_ray_worker_node
CalcMemPerRayWorkerNode ==
    /\ call = NoCall
    /\ \E num_task_slots \in SlotCounts, physical_mem_bytes \in MemBytes,
          shared_mem_bytes \in MemBytes, heap_to_object_store_ratio \in Ratios :
         /\ call' = [fn |-> "calc_mem_per_ray_worker_node",
                     args |-> <<num_task_slots, physical_mem_bytes, shared_mem_bytes,
                                heap_to_object_store_ratio>>]
         /\ ret' = calc_mem_per_ray_worker_node(num_task_slots, physical_mem_bytes,
                                                shared_mem_bytes,
                                                heap_to_object_store_ratio)
    /\ UNCHANGED <<lockVars, clusterVars, hookVars>>

\* a call of get_target_spark_tasks
GetTargetSparkTasks ==
    /\ call = NoCall
    /\ \E max_concurrent_tasks \in ConcurrentTasks, num_spark_task_cpus \in TaskCpus,
          num_spark_task_gpus \in TaskGpus, heap_bytes \in NodeHeapBytes,
          object_store \in NodeObjectStoreBytes, num_spark_tasks \in OptCounts,
          total_cpus \in OptTotals, total_gpus \in OptTotals,
          total_heap_memory_bytes \in OptTotals,
          total_object_store_memory_bytes \in OptTotals :
         /\ call' = [fn |-> "get_target_spark_tasks",
                     args |-> <<max_concurrent_tasks, num_spark_task_cpus,
                                num_spark_task_gpus, heap_bytes, object_store,
                                num_spark_tasks, total_cpus, total_gpus,
                                total_heap_memory_bytes,
                                total_object_store_memory_bytes>>]
         /\ ret' = get_target_spark_tasks(max_concurrent_tasks, num_spark_task_cpus,
                                          num_spark_task_gpus, heap_bytes, object_store,
                                          num_spark_tasks, total_cpus, total_gpus,
                                          total_heap_memory_bytes,
                                          total_object_store_memory_bytes)
    /\ UNCHANGED <<lockVars, clusterVars, hookVars>>

\* the worker nodes a create with an explicit node count ends up with (no
\* autoscaling): the number of nodes the scheduler can run at once for the
\* per-node CPU cost
MaxHostable(max_spark_tasks, num_cpus_worker_node, num_cpus_per_spark_task) ==
    max_spark_tasks \div (num_cpus_worker_node \div num_cpus_per_spark_task)

\* a scheduler that runs every requested task at once
GrantedSlotsUncapped(num_tasks, max_concurrent_slots) == num_tasks

\* the slots the host scheduler grants at once to a job of num_tasks tasks
GrantedSlots(num_tasks, max_concurrent_slots) ==
    IF num_tasks > max_concurrent_slots THEN max_concurrent_slots ELSE num_tasks

\* a node started with the heap and the object-store amounts exchanged
NodeResourceSpecSwapped(num_cpus_worker_node, mem) ==
    <<num_cpus_worker_node, mem[2], mem[1]>>

\* the resources one worker node is started with: CPU, heap bytes,
\* object-store bytes
NodeResourceSpec(num_cpus_worker_node, mem) ==
    <<num_cpus_worker_node, mem[1], mem[2]>>

\* create steps 1 and 2 for an explicit node count: the per-node memory is
\* resolved for the slots one machine hosts (a failure of the calculation on
\* the executor is reported as RuntimeError), the node count is resolved, and
\* every slot the scheduler grants runs one node with the resolved resources
ray_worker_nodes(max_spark_tasks, num_cpus_per_spark_task, num_cpus_worker_node,
                 num_worker_nodes, physical_mem_bytes, shared_mem_bytes) ==
    LET max_hostable == MaxHostable(max_spark_tasks, num_cpus_worker_node,
                                    num_cpus_per_spark_task)
        mem == calc_mem_per_ray_worker_node(max_hostable, physical_mem_bytes,
                                            shared_mem_bytes, HEAP_TO_SHARED_RATIO)
        target == get_target_spark_tasks(max_hostable, num_cpus_worker_node, 0,
                                         mem.val[1], mem.val[2], num_worker_nodes,
                                         None, None, None, None)
    IN  IF mem.kind # "ok" THEN Raise("RuntimeError")
        ELSE IF target.kind # "ok" THEN target
        ELSE Ok([i \in 1..GrantedSlots(target.val[1], max_hostable) |->
                    NodeResourceSpec(num_cpus_worker_node, mem.val)])

\* the per-node CPU cost as a multiple of spark.task.cpus
CpuMultiples == {1, 2}

\* a create with an explicit node count, up to the worker nodes running
RayWorkerNodes ==
    /\ call = NoCall
    /\ \E max_spark_tasks \in ConcurrentTasks, num_cpus_per_spark_task \in TaskCpus,
          multiple \in CpuMultiples, num_worker_nodes \in OptCounts,
          physical_mem_bytes \in MemBytes :
         /\ call' = [fn |-> "ray_worker_nodes",
                     args |-> <<max_spark_tasks, num_cpus_per_spark_task,
                                num_cpus_per_spark_task * multiple, num_worker_nodes,
                                physical_mem_bytes, MaxMemBytes>>]
         /\ ret' = ray_worker_nodes(max_spark_tasks, num_cpus_per_spark_task,
                                    num_cpus_per_spark_task * multiple,
                                    num_worker_nodes, physical_mem_bytes, MaxMemBytes)
    /\ UNCHANGED <<lockVars, clusterVars, hookVars>>

SizerReturn ==
    /\ call # NoCall
    /\ call' = NoCall
    /\ ret' = NoRet
    /\ UNCHANGED <<lockVars, clusterVars, hookVars>>

(***************************************************************************)
(* Part 2: the cluster lifecycle controller and its watchers.              *)
(***************************************************************************)

\* databricks_hook.py:123, the default of
\* DATABRICKS_RAY_ON_SPARK_AUTOSHUTDOWN_MINUTES
auto_shutdown_minutes == 30
\* databricks_hook.py:164
auto_shutdown_millis == auto_shutdown_minutes * 60 * 1000
\* values getIdleTimeMillisSinceLastNotebookExecution may return: below, at
\* and above the threshold
IdleReadings == {0, auto_shutdown_millis, auto_shutdown_millis + 1}

\* threads of the driver process: the caller of the public API, and for each
\* handle its idle watcher and its background-job (liveness) watcher
U == <<"user", 0>>
IW(h) == <<"idle", h>>
LW(h) == <<"live", h>>
NoThread == <<"none", 0>>
Threads == {U} \cup {IW(h) : h \in Handles} \cup {LW(h) : h \in Handles}

Rank(s) ==
    CASE s = "NONE" -> 0
      [] s = "CREATING" -> 1
      [] s = "ACTIVE" -> 2
      [] s = "SHUTTING_DOWN" -> 3
      [] s = "SHUTDOWN" -> 4

ClusterInit ==
    /\ state = [h \in Handles |-> "NONE"]
    /\ is_shutdown = [h \in Handles |-> FALSE]
    /\ job = [h \in Handles |-> "none"]
    /\ head = [h \in Handles |-> "none"]
    /\ workers = [h \in Handles |-> FALSE]
    /\ cancels = [h \in Handles |-> 0]
    /\ teardowns = [h \in Handles |-> 0]
    /\ active_ray_cluster = 0
    /\ rwlock_owner = NoThread
    /\ rwlock_depth = 0
    /\ ray_address = 0
    /\ pc = [t \in Threads |-> IF t = U THEN "idle" ELSE "off"]
    /\ tgt = [t \in Threads |-> 0]
    /\ res = "none"
    /\ last_call = "none"

\* the order of the teardown steps of shutdown, with the slot cleared before
\* the job is cancelled
SdOrderClearFirst == <<"sd_clear", "sd_cancel", "sd_stop", "sd_mark">>

\* the order of the teardown steps of shutdown: cancel the background job,
\* wait for the node processes and clear the address state, remove the
\* active-cluster reference, set is_shutdown
SdOrder == <<"sd_cancel", "sd_stop", "sd_clear", "sd_mark">>

SdIndex(step) == CHOOSE i \in 1..Len(SdOrder) : SdOrder[i] = step
SdAfter(step) ==
    IF SdIndex(step) = Len(SdOrder) THEN "sd_ret" ELSE SdOrder[SdIndex(step) + 1]

\* a lock that is not re-entrant: its owner waits for itself
RwlockNotReentrant(t) == rwlock_owner = NoThread

\* a lock that never makes a thread wait
RwlockAcquirableAlways(t) == TRUE

\* "with cluster_init._active_ray_cluster_rwlock": the lock is free, or is
\* owned by the acquiring thread itself (re-entrant)
RwlockAcquirable(t) == rwlock_owner = NoThread \/ rwlock_owner = t

\* the watcher testing only that some cluster is active
HandlerIsActiveAnyHandle(h) == active_ray_cluster # 0

\* the watcher calling the global shutdown whatever the slot holds
HandlerIsActiveUnchecked(h) == TRUE

\* "if ray_cluster_handler is cluster_init._active_ray_cluster"
HandlerIsActive(h) == active_ray_cluster = h

\* create that does not look at the slot
SlotOccupiedIgnored == FALSE

\* create's test of the process-global slot: a cluster is already running
SlotOccupied == active_ray_cluster # 0

\* shutdown_ray_cluster() raising when no cluster is active
EmptySlotRaises == "no_active_cluster"

\* shutdown_ray_cluster() with an empty slot: a no-op, not an error
EmptySlotResult == "ok"

\* a shutdown that leaves the reference in the slot
SlotAfterClearKept(h) == active_ray_cluster

\* "remove the process-global active-cluster reference ... only if the
\* current active handle is still this one"
SlotAfterClear(h) == IF active_ray_cluster = h THEN 0 ELSE active_ray_cluster

\* shutdown that does not test for a handle already shut down
AlreadyShutdownIgnored(h) == FALSE

\* shutdown(handle): "if already SHUTDOWN, no-op"
AlreadyShutdown(h) == state[h] = "SHUTDOWN"

\* a liveness watcher that never sees the job gone
JobGoneNever(h) == FALSE

\* the liveness watcher's test of the host scheduler's job state
JobGone(h) == job[h] # "running"

\* a watcher that does not look at the handle's flag
ObservedShutdownNever(h) == FALSE

\* "if ray_cluster_handler.is_shutdown" at the head of the watcher's loop
ObservedShutdown(h) == is_shutdown[h]

\* a watcher that goes on polling after its locked shutdown
IwAfterShutdownPollsOn == "poll"

\* the "return" that follows the watcher's locked shutdown: the thread ends
IwAfterShutdown == "off"

\* a cancel that fails, and ends the teardown, when the job is already gone
CancelReturnsIfRunning(j) == j = "running"

\* the cancel step of shutdown returns whatever the job's state: "already
\* gone" is treated as success
CancelReturns(j) == TRUE

\* a cancel request the host scheduler does not act on
JobAfterCancelIgnored(j) == j

\* cancel_job on the host scheduler: a running job is cancelled; a job that
\* is already gone stays as it is ("already gone" is success)
JobAfterCancel(j) == IF j = "running" THEN "cancelled" ELSE j

\* values of DATABRICKS_RAY_ON_SPARK_AUTOSHUTDOWN_MINUTES: negative, zero, and
\* the default
AutoShutdownMinutes == {-1, 0, auto_shutdown_minutes}

\* databricks_hook.py:106-120: unless the global mode is on, the job group is
\* registered with the host session as a background job; an exception of the
\* registration is logged as a warning and nothing else
register_job_group(global_mode, register_ok) ==
    IF global_mode THEN "skipped"
    ELSE IF register_ok THEN "registered"
    ELSE "warning"

\* the idle-timeout handling without the probe of the idle-time query
IdleTimeoutHandlingUnprobed(minutes, idle_query_ok) ==
    IF minutes = 0 THEN Ok("disabled")
    ELSE IF minutes < 0 THEN Raise("ValueError")
    ELSE Ok("watcher")

\* the idle-timeout handling that takes every non-positive value as "disabled"
IdleTimeoutHandlingNonPositiveDisables(minutes, idle_query_ok) ==
    IF minutes <= 0 THEN Ok("disabled")
    ELSE IF ~idle_query_ok THEN Ok("no_idle_query")
    ELSE Ok("watcher")

\* databricks_hook.py:122-182: 0 minutes disables the watcher, a negative
\* value raises ValueError, a failing idle-time query leaves the cluster
\* without watcher, else the watcher thread is started
idle_timeout_handling(minutes, idle_query_ok) ==
    IF minutes = 0 THEN Ok("disabled")
    ELSE IF minutes < 0 THEN Raise("ValueError")
    ELSE IF ~idle_query_ok THEN Ok("no_idle_query")
    ELSE Ok("watcher")

\* on_cluster_created of the Databricks hook: _get_db_api_entry() is called
\* before the try block, so its _NoDbutilsError leaves the function; then the
\* registration, then the handling of the idle timeout; the result is the
\* pair of what the two did
on_cluster_created(entry_point_ok, global_mode, register_ok, minutes, idle_query_ok) ==
    IF ~entry_point_ok THEN Raise("_NoDbutilsError")
    ELSE IF idle_timeout_handling(minutes, idle_query_ok).kind # "ok"
      THEN idle_timeout_handling(minutes, idle_query_ok)
    ELSE Ok(<<register_job_group(global_mode, register_ok),
              idle_timeout_handling(minutes, idle_query_ok).val>>)

\* what create() is asked for: <<num_worker_nodes, total_cpus>>
CreateRequests == {<<Some(-1), None>>, <<Some(0), None>>, <<Some(1), None>>,
                   <<None, Some(0)>>, <<None, Some(MaxTotal)>>}

\* step 1 of create: the node count, by get_target_spark_tasks, on a cluster
\* with one CPU and no GPU per task
EffectiveNodeCount(request) ==
    get_target_spark_tasks(MaxConcurrentTasks, 1, 0, 2, 3,
                           request[1], request[2], None, None, None)

\* the lowest handle not yet used
FreshHandle == CHOOSE h \in Handles : state[h] = "NONE" /\ \A g \in 1..(h - 1) : state[g] # "NONE"

(***************************************************************************)
(* create: setup_ray_cluster, called by the user thread.                   *)
(***************************************************************************)

\* setup_ray_cluster up to the submission of the background job: with a
\* cluster in the slot it fails with the already-running error; the node count
\* is resolved (step 1), and an error of the resolution reaches the caller;
\* otherwise a handle is made (CREATING), the head node is started and the job
\* submitted; create is called only while a handle of the bound is unused
SetupRayCluster ==
    /\ pc[U] = "idle"
    /\ \E h \in Handles : state[h] = "NONE"
    /\ RwlockAcquirable(U)
    /\ \E request \in CreateRequests :
         IF SlotOccupied
           THEN /\ res' = "already_running"
                /\ last_call' = "create"
                /\ UNCHANGED <<state, job, head, workers, pc, tgt>>
           ELSE IF EffectiveNodeCount(request).kind # "ok"
           THEN /\ res' = EffectiveNodeCount(request).kind
                /\ last_call' = "create"
                /\ UNCHANGED <<state, job, head, workers, pc, tgt>>
           ELSE /\ state' = [state EXCEPT ![FreshHandle] = "CREATING"]
                /\ job' = [job EXCEPT ![FreshHandle] = "running"]
                /\ head' = [head EXCEPT ![FreshHandle] = "starting"]
                /\ workers' = [workers EXCEPT ![FreshHandle] = TRUE]
                /\ tgt' = [tgt EXCEPT ![U] = FreshHandle]
                /\ pc' = [pc EXCEPT ![U] = "cr_wait"]
                /\ UNCHANGED <<res, last_call>>
    /\ UNCHANGED <<is_shutdown, cancels, teardowns, active_ray_cluster,
                   rwlock_owner, rwlock_depth, ray_address>>
    /\ UNCHANGED <<lockVars, sizerVars, hookVars>>

\* the head node became reachable: under the lock the handle is installed as
\* the active cluster and becomes ACTIVE; then on_cluster_created runs, which
\* may start the idle watcher and may raise; the background-job thread
\* watches the job from here on
HeadReachableWith(entry_point_ok, global_mode, register_ok, minutes, idle_query_ok) ==
    /\ pc[U] = "cr_wait"
    /\ RwlockAcquirable(U)
    /\ LET created == on_cluster_created(entry_point_ok, global_mode, register_ok,
                                         minutes, idle_query_ok)
       IN  /\ pc' = [pc EXCEPT ![U] = "idle",
                               ![LW(tgt[U])] = "poll",
                               ![IW(tgt[U])] =
                                   IF created.kind = "ok" /\ created.val[2] = "watcher"
                                     THEN "poll" ELSE "off"]
           /\ res' = IF created.kind = "ok" THEN "ok" ELSE created.kind
    /\ active_ray_cluster' = tgt[U]
    /\ state' = [state EXCEPT ![tgt[U]] = "ACTIVE"]
    /\ head' = [head EXCEPT ![tgt[U]] = "up"]
    /\ ray_address' = tgt[U]
    /\ tgt' = [tgt EXCEPT ![U] = 0]
    /\ last_call' = "create"
    /\ UNCHANGED <<is_shutdown, job, workers, cancels, teardowns, rwlock_owner, rwlock_depth>>
    /\ UNCHANGED <<lockVars, sizerVars, hookVars>>

\* the inputs of on_cluster_created are the environment's: whether dbutils is
\* there, the notebook mode, whether the registration call works, the
\* configured idle timeout and whether the idle-time query works
HeadReachable ==
    \E entry_point_ok \in BOOLEAN, global_mode \in BOOLEAN, register_ok \in BOOLEAN,
       minutes \in AutoShutdownMinutes, idle_query_ok \in BOOLEAN :
        HeadReachableWith(entry_point_ok, global_mode, register_ok, minutes, idle_query_ok)

\* the head node did not become reachable within the bounded retry: the
\* submitted job is cancelled and create fails with the startup-timeout error
StartupTimeout ==
    /\ pc[U] = "cr_wait"
    /\ cancels' = [cancels EXCEPT ![tgt[U]] = @ + 1]
    /\ job' = [job EXCEPT ![tgt[U]] = JobAfterCancel(@)]
    /\ workers' = [workers EXCEPT ![tgt[U]] = FALSE]
    /\ head' = [head EXCEPT ![tgt[U]] = "down"]
    /\ pc' = [pc EXCEPT ![U] = "idle"]
    /\ tgt' = [tgt EXCEPT ![U] = 0]
    /\ res' = "startup_timeout"
    /\ last_call' = "create"
    /\ UNCHANGED <<state, is_shutdown, teardowns, active_ray_cluster,
                   rwlock_owner, rwlock_depth, ray_address>>
    /\ UNCHANGED <<lockVars, sizerVars, hookVars>>

\* the host scheduler cancels the job from outside, or the job crashes: its
\* tasks, the worker nodes, end with it
JobExits(h) ==
    /\ job[h] = "running"
    /\ job' = [job EXCEPT ![h] = "exited"]
    /\ workers' = [workers EXCEPT ![h] = FALSE]
    /\ UNCHANGED <<state, is_shutdown, head, cancels, teardowns, active_ray_cluster, rwlock_owner, rwlock_depth, ray_address,
                   pc, tgt, res, last_call>>
    /\ UNCHANGED <<lockVars, sizerVars, hookVars>>

(***************************************************************************)
(* shutdown.                                                               *)
(***************************************************************************)

\* shutdown_ray_cluster(), the user's call: under the lock, nothing to do when
\* the slot is empty, else the active handle's shutdown (which takes the
\* re-entrant lock again)
ShutdownRayCluster ==
    /\ pc[U] = "idle"
    /\ RwlockAcquirable(U)
    /\ IF active_ray_cluster = 0
         THEN /\ res' = EmptySlotResult
              /\ last_call' = "shutdown"
              /\ UNCHANGED <<rwlock_owner, rwlock_depth, pc, tgt>>
         ELSE /\ rwlock_owner' = U
              /\ rwlock_depth' = 2
              /\ tgt' = [tgt EXCEPT ![U] = active_ray_cluster]
              /\ pc' = [pc EXCEPT ![U] = "sd_check"]
              /\ UNCHANGED <<res, last_call>>
    /\ UNCHANGED <<state, is_shutdown, job, head, workers, cancels, teardowns,
                   active_ray_cluster, ray_address>>
    /\ UNCHANGED <<lockVars, sizerVars, hookVars>>

\* handle.shutdown(), called by the user on a handle create returned
HandleShutdown(h) ==
    /\ pc[U] = "idle"
    /\ Rank(state[h]) >= Rank("ACTIVE")
    /\ RwlockAcquirable(U)
    /\ rwlock_owner' = U
    /\ rwlock_depth' = 1
    /\ tgt' = [tgt EXCEPT ![U] = h]
    /\ pc' = [pc EXCEPT ![U] = "sd_check"]
    /\ UNCHANGED <<state, is_shutdown, job, head, workers, cancels, teardowns,
                   active_ray_cluster, ray_address, res,
                   last_call>>
    /\ UNCHANGED <<lockVars, sizerVars, hookVars>>

\* shutdown(handle): no-op on a handle already SHUTDOWN, else the handle
\* becomes SHUTTING_DOWN and the teardown steps follow
SdCheck(t) ==
    /\ pc[t] = "sd_check"
    /\ IF AlreadyShutdown(tgt[t])
         THEN /\ pc' = [pc EXCEPT ![t] = "sd_noop"]
              /\ UNCHANGED <<state, teardowns>>
         ELSE /\ state' = [state EXCEPT ![tgt[t]] = "SHUTTING_DOWN"]
              /\ teardowns' = [teardowns EXCEPT ![tgt[t]] = @ + 1]
              /\ pc' = [pc EXCEPT ![t] = SdOrder[1]]
    /\ UNCHANGED <<is_shutdown, job, head, workers, cancels, active_ray_cluster,
                   rwlock_owner, rwlock_depth, ray_address, tgt, res,
                   last_call>>
    /\ UNCHANGED <<lockVars, sizerVars, hookVars>>

\* cancel the background job on the host scheduler; a job already gone is
\* not an error; the cancel ends the worker node processes
SdCancel(t) ==
    /\ pc[t] = "sd_cancel"
    /\ CancelReturns(job[tgt[t]])
    /\ cancels' = [cancels EXCEPT ![tgt[t]] = @ + 1]
    /\ job' = [job EXCEPT ![tgt[t]] = JobAfterCancel(@)]
    /\ workers' = [workers EXCEPT ![tgt[t]] = FALSE]
    /\ pc' = [pc EXCEPT ![t] = SdAfter("sd_cancel")]
    /\ UNCHANGED <<state, is_shutdown, head, teardowns, active_ray_cluster, rwlock_owner, rwlock_depth, ray_address,
                   tgt, res, last_call>>
    /\ UNCHANGED <<lockVars, sizerVars, hookVars>>

\* the RAY_ADDRESS entry if the teardown left it as it was
AddressAfterStopKept == ray_address

\* "clear environment/address state": the teardown removes the RAY_ADDRESS entry
AddressAfterStop == 0

\* wait for the node processes to exit (the head node stops) and clear the
\* environment/address state
SdStop(t) ==
    /\ pc[t] = "sd_stop"
    /\ head' = [head EXCEPT ![tgt[t]] = "down"]
    /\ ray_address' = AddressAfterStop
    /\ pc' = [pc EXCEPT ![t] = SdAfter("sd_stop")]
    /\ UNCHANGED <<state, is_shutdown, job, workers, cancels, teardowns, active_ray_cluster, rwlock_owner, rwlock_depth, tgt, res, last_call>>
    /\ UNCHANGED <<lockVars, sizerVars, hookVars>>

\* remove the process-global reference, under the lock (taken again by the
\* thread that holds it already), only if it is still this handle
SdClear(t) ==
    /\ pc[t] = "sd_clear"
    /\ RwlockAcquirable(t)
    /\ active_ray_cluster' = SlotAfterClear(tgt[t])
    /\ pc' = [pc EXCEPT ![t] = SdAfter("sd_clear")]
    /\ UNCHANGED <<state, is_shutdown, job, head, workers, cancels, teardowns,
                   rwlock_owner, rwlock_depth, ray_address, tgt, res, last_call>>
    /\ UNCHANGED <<lockVars, sizerVars, hookVars>>

\* set is_shutdown = true; the handle is SHUTDOWN
SdMark(t) ==
    /\ pc[t] = "sd_mark"
    /\ is_shutdown' = [is_shutdown EXCEPT ![tgt[t]] = TRUE]
    /\ state' = [state EXCEPT ![tgt[t]] = "SHUTDOWN"]
    /\ pc' = [pc EXCEPT ![t] = SdAfter("sd_mark")]
    /\ UNCHANGED <<job, head, workers, cancels, teardowns, active_ray_cluster, rwlock_owner, rwlock_depth, ray_address,
                   tgt, res, last_call>>
    /\ UNCHANGED <<lockVars, sizerVars, hookVars>>

\* shutdown returns, after the teardown (sd_ret) or at once (sd_noop): the lock
\* is released; a watcher thread ends, the user's call returns without error
SdReturn(t) ==
    /\ pc[t] \in {"sd_ret", "sd_noop"}
    /\ rwlock_owner' = NoThread
    /\ rwlock_depth' = 0
    /\ tgt' = [tgt EXCEPT ![t] = 0]
    /\ pc' = [pc EXCEPT ![t] = IF t = U THEN "idle"
                               ELSE IF t[1] = "idle" THEN IwAfterShutdown
                               ELSE "off"]
    /\ res' = IF t = U THEN "ok" ELSE res
    /\ last_call' = IF t # U THEN last_call
                  ELSE IF rwlock_depth = 2 THEN "shutdown" ELSE "handle_shutdown"
    /\ UNCHANGED <<state, is_shutdown, job, head, workers, cancels, teardowns,
                   active_ray_cluster, ray_address>>
    /\ UNCHANGED <<lockVars, sizerVars, hookVars>>

SdStep(t) ==
    \/ SdCheck(t)
    \/ SdCancel(t)
    \/ SdStop(t)
    \/ SdClear(t)
    \/ SdMark(t)
    \/ SdReturn(t)

(***************************************************************************)
(* The watchers.                                                           *)
(***************************************************************************)

\* a watcher that shuts down as soon as the idle time reaches the threshold
IdleTimeReached(idle_time) == idle_time >= auto_shutdown_millis

\* databricks_hook.py:172, "if idle_time > auto_shutdown_millis"
IdleTimeExceeded(idle_time) == idle_time > auto_shutdown_millis

\* auto_shutdown_watcher, one pass of "while True": return once the handle
\* is shut down; else read the idle time, and go for the lock when it exceeds
\* the threshold, else sleep and poll again
IwPollWith(h, idle_time) ==
    /\ pc[IW(h)] = "poll"
    /\ pc' = [pc EXCEPT ![IW(h)] =
                IF ObservedShutdown(h) THEN "off"
                ELSE IF IdleTimeExceeded(idle_time) THEN "lock"
                ELSE "poll"]
    /\ UNCHANGED <<state, is_shutdown, job, head, workers, cancels, teardowns,
                   active_ray_cluster, rwlock_owner, rwlock_depth,
                   ray_address, tgt, res, last_call>>
    /\ UNCHANGED <<lockVars, sizerVars, hookVars>>

\* the idle time is what the host platform reports at that pass
IwPoll(h) == \E idle_time \in IdleReadings : IwPollWith(h, idle_time)

\* "with _active_ray_cluster_rwlock: if ray_cluster_handler is
\* _active_ray_cluster: shutdown_ray_cluster()", then return; the thread ends
\* "skipped" when the test fails and nothing is shut down
IwLock(h) ==
    /\ pc[IW(h)] = "lock"
    /\ RwlockAcquirable(IW(h))
    /\ IF HandlerIsActive(h) /\ active_ray_cluster # 0
         THEN /\ rwlock_owner' = IW(h)
              /\ rwlock_depth' = 3
              /\ tgt' = [tgt EXCEPT ![IW(h)] = active_ray_cluster]
              /\ pc' = [pc EXCEPT ![IW(h)] = "sd_check"]
         ELSE /\ pc' = [pc EXCEPT ![IW(h)] = "skipped"]
              /\ UNCHANGED <<rwlock_owner, rwlock_depth, tgt>>
    /\ UNCHANGED <<state, is_shutdown, job, head, workers, cancels, teardowns,
                   active_ray_cluster, ray_address, res, last_call>>
    /\ UNCHANGED <<lockVars, sizerVars, hookVars>>

\* the liveness watcher sees the background job gone and calls shutdown on
\* its handle
LwShutdown(h) ==
    /\ pc[LW(h)] = "poll"
    /\ JobGone(h)
    /\ RwlockAcquirable(LW(h))
    /\ rwlock_owner' = LW(h)
    /\ rwlock_depth' = 1
    /\ tgt' = [tgt EXCEPT ![LW(h)] = h]
    /\ pc' = [pc EXCEPT ![LW(h)] = "sd_check"]
    /\ UNCHANGED <<state, is_shutdown, job, head, workers, cancels, teardowns,
                   active_ray_cluster, ray_address, res, last_call>>
    /\ UNCHANGED <<lockVars, sizerVars, hookVars>>

(***************************************************************************)
(* Specifications.                                                         *)
(***************************************************************************)

\* no bootstrap process has started, no cluster has been created and no
\* calculation is being made
(***************************************************************************)
(* Part 4: the selection of the platform hook.                             *)
(***************************************************************************)

\* class paths RAY_ON_SPARK_START_HOOK may name
OverrideClasses == {"hooks.HookA", "hooks.HookB", "hooks.HookC"}

HookInit ==
    /\ environ_hook = None
    /\ databricks_runtime = FALSE
    /\ hook_cache = None
    /\ hook_objects = 0
    /\ hook_ret = None
    /\ hook_calls = 0

\* the body of _get_start_hook: the class of the hook it constructs
start_hook_class(environ, in_databricks_runtime) ==
    IF environ # None THEN environ[1]
    ELSE IF in_databricks_runtime THEN "DefaultDatabricksRayOnSparkStartHook"
    ELSE "RayOnSparkStartHook"

\* a cache that never has the entry
CacheLookupMiss(cache) == None

\* @lru_cache(maxsize=1) on a function without arguments: the entry, if any
CacheLookup(cache) == cache

\* a call of _get_start_hook(): the cached object, or else a newly constructed
\* one, which is stored in the cache
GetStartHook ==
    /\ hook_calls < MaxHookCalls
    /\ hook_calls' = hook_calls + 1
    /\ IF CacheLookup(hook_cache) # None
         THEN /\ hook_ret' = CacheLookup(hook_cache)
              /\ UNCHANGED <<hook_cache, hook_objects>>
         ELSE /\ hook_objects' = hook_objects + 1
              /\ hook_cache' = Some(<<start_hook_class(environ_hook, databricks_runtime),
                                      hook_objects + 1>>)
              /\ hook_ret' = hook_cache'
    /\ UNCHANGED <<environ_hook, databricks_runtime>>
    /\ UNCHANGED <<lockVars, clusterVars, sizerVars>>

\* a call of on_cluster_created of the Databricks hook
OnClusterCreated ==
    /\ call = NoCall
    /\ \E entry_point_ok \in BOOLEAN, global_mode \in BOOLEAN, register_ok \in BOOLEAN,
          minutes \in AutoShutdownMinutes, idle_query_ok \in BOOLEAN :
         /\ call' = [fn |-> "on_cluster_created",
                     args |-> <<entry_point_ok, global_mode, register_ok, minutes,
                                idle_query_ok>>]
         /\ ret' = on_cluster_created(entry_point_ok, global_mode, register_ok,
                                      minutes, idle_query_ok)
    /\ UNCHANGED <<lockVars, clusterVars, hookVars>>

\* the process sets, changes or removes RAY_ON_SPARK_START_HOOK
SetStartHookEnviron ==
    /\ \E v \in {None} \cup {Some(c) : c \in OverrideClasses} :
         /\ v # environ_hook
         /\ environ_hook' = v
    /\ UNCHANGED <<databricks_runtime, hook_cache, hook_objects, hook_ret, hook_calls>>
    /\ UNCHANGED <<lockVars, clusterVars, sizerVars>>

\* DATABRICKS_RUNTIME_VERSION is set or removed
SetDatabricksRuntime ==
    /\ databricks_runtime' = ~databricks_runtime
    /\ UNCHANGED <<environ_hook, hook_cache, hook_objects, hook_ret, hook_calls>>
    /\ UNCHANGED <<lockVars, clusterVars, sizerVars>>

Init == LockInit /\ ClusterInit /\ SizerInit /\ HookInit

LockNext ==
    \/ \E p \in Procs : OsOpen(p)
    \/ \E p \in Procs : OsOpenFails(p)
    \/ \E p \in Procs : FlockAcquire(p)
    \/ \E p \in Procs : FlockRefused(p)
    \/ \E p \in Procs : ExceptException(p)
    \/ \E p \in Procs : StartReleaserAndReturn(p)
    \/ \E p \in Procs : HoldLockAndRelease(p)

SpecLock == Init /\ [][LockNext]_vars

ClusterNext ==
    \/ SetupRayCluster
    \/ HeadReachable
    \/ StartupTimeout
    \/ ShutdownRayCluster
    \/ \E h \in Handles : HandleShutdown(h)
    \/ \E h \in Handles : JobExits(h)
    \/ \E t \in Threads : SdCheck(t)
    \/ \E t \in Threads : SdCancel(t)
    \/ \E t \in Threads : SdStop(t)
    \/ \E t \in Threads : SdClear(t)
    \/ \E t \in Threads : SdMark(t)
    \/ \E t \in Threads : SdReturn(t)
    \/ \E h \in Handles : IwPoll(h)
    \/ \E h \in Handles : IwLock(h)
    \/ \E h \in Handles : LwShutdown(h)

SpecCluster == Init /\ [][ClusterNext]_vars

SizerNext ==
    \/ CalcMemPerRayWorkerNode
    \/ GetTargetSparkTasks
    \/ RayWorkerNodes
    \/ SizerReturn

SpecSizer == Init /\ [][SizerNext]_vars

HookNext ==
    \/ GetStartHook
    \/ SetStartHookEnviron
    \/ SetDatabricksRuntime
    \/ OnClusterCreated
    \/ SizerReturn

SpecHook == Init /\ [][HookNext]_vars

(***************************************************************************)
(* Properties of the startup barrier (checked under SpecLock).             *)
(***************************************************************************)

\* C1: at no time do two bootstrap processes both hold the startup lock, that
\* is, both are between a successful flock and their own release.
C1_MutualExclusion == Cardinality({p \in Procs : flock_held[p]}) <= 1

\* one process holds the lock while another has been refused and a third has
\* used up its whole retry budget
C1_Witness ==
    \E p, q, r \in Procs :
        /\ flock_held[p]
        /\ q # p /\ lpc[q] = "flock" /\ lock_iter[q] > 0
        /\ r # p /\ r # q /\ lock_iter[r] = max_lock_iter

\* C2: whenever _acquire_lock_for_ray_worker_node_startup returns normally to
\* the bootstrap routine, the calling process holds the exclusive lock at that
\* moment (the releaser thread has been started and has not yet released), on
\* every path, also the one where all lock attempts were refused.
C2_ReturnsHoldingLock ==
    \A p \in Procs :
        (lpc[p] = "returned" /\ releaser[p] = "sleeping") => flock_held[p]

(***************************************************************************)
(* Properties of the lifecycle controller (checked under SpecCluster).     *)
(***************************************************************************)

ActiveHandles == {h \in Handles : state[h] = "ACTIVE"}

\* C3: in every reachable state at most one handle is ACTIVE and the slot
\* holds at most one handle; a create() issued while a handle is ACTIVE fails
\* with the already-running error and leaves the existing handle, the slot and
\* the existing background job unchanged.
C3_AtMostOneActive ==
    [][ /\ Cardinality({h \in Handles : state'[h] = "ACTIVE"}) <= 1
        /\ active_ray_cluster' \in {0} \cup Handles
        /\ (SetupRayCluster /\ ActiveHandles # {}) =>
              /\ res' = "already_running"
              /\ pc'[U] = "idle"
              /\ UNCHANGED <<state, is_shutdown, job, head, workers, cancels,
                             teardowns, active_ray_cluster, ray_address>> ]_vars

\* a create() was refused while a cluster is ACTIVE in the slot
C3_Witness ==
    /\ res = "already_running"
    /\ last_call = "create"
    /\ active_ray_cluster # 0
    /\ state[active_ray_cluster] = "ACTIVE"
    /\ job[active_ray_cluster] = "running"

\* C4: each handle's state only advances along CREATING -> ACTIVE ->
\* SHUTTING_DOWN -> SHUTDOWN, one stage at a time and never backward; SHUTDOWN
\* is terminal; is_shutdown once true stays true.
C4_LifecycleMonotone ==
    [][ \A h \in Handles :
          /\ Rank(state'[h]) - Rank(state[h]) \in {0, 1}
          /\ state[h] = "SHUTDOWN" => state'[h] = "SHUTDOWN"
          /\ is_shutdown[h] => is_shutdown'[h] ]_vars

\* a shutdown call is running on a handle that is already SHUTDOWN, while a
\* later handle is ACTIVE
C4_Witness ==
    \E t \in Threads :
        /\ pc[t] = "sd_noop"
        /\ state[tgt[t]] = "SHUTDOWN" /\ is_shutdown[tgt[t]]
        /\ ActiveHandles # {}

\* C5: shutdown() on a handle that is already SHUTDOWN, and shutdown when no
\* cluster is active, change no state, issue no job cancel and raise no
\* error.
C5_ShutdownIdempotent ==
    [][ /\ ( \/ \E t \in Threads : SdCheck(t) /\ state[tgt[t]] = "SHUTDOWN"
             \/ ShutdownRayCluster /\ active_ray_cluster = 0 )
           => UNCHANGED <<state, is_shutdown, job, head, workers, cancels,
                          teardowns, active_ray_cluster, ray_address>>
        /\ last_call' \in {"shutdown", "handle_shutdown"} => res' = "ok" ]_vars

\* the user's second shutdown of a handle returned at once, and a shutdown
\* with nothing active has been made as well
C5_Witness ==
    /\ pc[U] = "sd_noop"
    /\ state[tgt[U]] = "SHUTDOWN"
    /\ cancels[tgt[U]] = 1
    /\ active_ray_cluster = 0
    /\ last_call = "shutdown" /\ res = "ok"

C7_CreateAfterShutdown ==
    [][ /\ last_call' = "shutdown" => active_ray_cluster' = 0
        /\ (SetupRayCluster /\ last_call = "shutdown") =>
              /\ res' # "already_running"
              /\ pc'[U] = "cr_wait" \/ (pc'[U] = "idle" /\ res' = "ValueError") ]_vars

\* the last handle of the run was created and installed after an earlier
\* handle had been shut down
C7_Witness ==
    /\ state[1] = "SHUTDOWN"
    /\ state[MaxHandles] = "ACTIVE"
    /\ active_ray_cluster = MaxHandles
    /\ last_call = "create" /\ res = "ok"

\* C8: in every shutdown the job cancel is issued before the slot is cleared;
\* a handle in the slot is only ever replaced by None, never by a new handle;
\* a create() that finds the slot empty runs only after every earlier
\* installed handle's job has been asked to cancel; and a thread that takes
\* the lock never finds a handle other than an ACTIVE one in the slot.
C8_CancelBeforeClear ==
    [][ /\ \A h \in Handles :
             (active_ray_cluster = h /\ active_ray_cluster' # h) =>
                (cancels[h] >= 1 /\ active_ray_cluster' = 0)
        /\ (SetupRayCluster /\ active_ray_cluster = 0) =>
              \A h \in Handles : Rank(state[h]) >= Rank("ACTIVE") => cancels[h] >= 1
        /\ (rwlock_owner' = NoThread /\ active_ray_cluster' # 0) =>
              state'[active_ray_cluster'] = "ACTIVE" ]_vars

\* a shutdown has cancelled the job and cleared the slot and has not yet
\* marked the handle SHUTDOWN
C8_Witness ==
    \E h \in Handles :
        /\ state[h] = "SHUTTING_DOWN"
        /\ cancels[h] = 1
        /\ active_ray_cluster = 0
        /\ \E t \in Threads : pc[t] = "sd_mark" /\ tgt[t] = h

\* C9: a shutdown started for handle h clears the slot only while the slot
\* holds h, and what it cancels, moves to SHUTTING_DOWN or SHUTDOWN and marks
\* is_shutdown is h alone: the watchers of an older handle never touch a
\* newer handle that a later create() installed.
C9_OwnHandleOnly ==
    [][ /\ \A h \in Handles : \A t \in {IW(h), LW(h)} : tgt'[t] \in {0, h}
        /\ \A h \in Handles :
             ( \/ (active_ray_cluster = h /\ active_ray_cluster' # h)
               \/ cancels'[h] # cancels[h]
               \/ is_shutdown'[h] # is_shutdown[h]
               \/ (state'[h] # state[h] /\ Rank(state'[h]) > Rank("ACTIVE")) )
             => \E t \in {U, IW(h), LW(h)} : tgt[t] = h /\ pc'[t] # pc[t] ]_vars

\* the idle watcher of an older handle found a newer handle in the slot and
\* ended without shutting anything down; the newer cluster is untouched
C9_Witness ==
    \E h \in Handles :
        /\ pc[IW(h)] = "skipped"
        /\ active_ray_cluster \notin {0, h}
        /\ state[active_ray_cluster] = "ACTIVE"
        /\ cancels[active_ray_cluster] = 0

(***************************************************************************)
(* Liveness of the externally triggered teardown (checked under            *)
(* FairCluster).                                                           *)
(***************************************************************************)

\* the watcher threads run: a liveness watcher that keeps finding the lock
\* free at times gets it, and the thread inside shutdown (there is one at a
\* time, the lock's owner) goes on to its end; the user thread and the idle
\* watcher are not required to act
FairCluster ==
    /\ SpecCluster
    /\ SF_vars(\E h \in Handles : LwShutdown(h))
    /\ WF_vars(\E t \in Threads : SdStep(t))

\* C10: if the background job of an ACTIVE cluster is cancelled from outside
\* or crashes, then, with no explicit shutdown() call needed, the handle
\* reaches SHUTDOWN with the head node process down and all workers gone.
C10_ExternalTeardown ==
    \A h \in Handles :
        (state[h] = "ACTIVE" /\ job[h] = "exited")
            ~> (state[h] = "SHUTDOWN" /\ head[h] = "down" /\ ~workers[h])

\* the liveness watcher itself has torn down a cluster whose job had exited
\* outside of shutdown
C10_Witness ==
    \E h \in Handles :
        /\ pc[LW(h)] = "sd_ret"
        /\ job[h] = "exited"
        /\ state[h] = "SHUTDOWN" /\ head[h] = "down" /\ ~workers[h]

(***************************************************************************)
(* Properties of the idle watcher.                                         *)
(***************************************************************************)

\* the idle watcher runs: blocked at the lock it gets it once the lock is
\* free often enough, and the thread inside shutdown goes on to its end; no
\* user call and no liveness watcher is required to act
FairIdle ==
    /\ SpecCluster
    /\ SF_vars(\E h \in Handles : IwLock(h))
    /\ WF_vars(\E t \in Threads : SdStep(t))

\* positions of a thread inside shutdown
SdPositions == {"sd_check", "sd_cancel", "sd_stop", "sd_clear", "sd_mark", "sd_ret", "sd_noop"}

\* C11: once the idle watcher of an ACTIVE handle has read an idle time above
\* the threshold, it calls shutdown when it finds its handle still in the slot
\* and the cluster is shut down (at least once); having called shutdown or
\* skipped it the watcher never polls or locks again, and the handle is torn
\* down at most once (never a second time).
C11_IdleShutdownOnce ==
    /\ [][ \A h \in Handles :
             /\ (IwLock(h) /\ active_ray_cluster = h) =>
                   (pc'[IW(h)] = "sd_check" /\ tgt'[IW(h)] = h)
             /\ pc[IW(h)] = "lock" => pc'[IW(h)] # "poll"
             /\ ( \/ pc[IW(h)] \in SdPositions \cup {"skipped"}
                  \/ (pc[IW(h)] = "off" /\ Rank(state[h]) >= Rank("ACTIVE")) )
                => pc'[IW(h)] \notin {"poll", "lock"}
             /\ teardowns'[h] <= 1 ]_vars
    /\ \A h \in Handles :
         (pc[IW(h)] = "lock" /\ state[h] = "ACTIVE")
            ~> (state[h] = "SHUTDOWN" /\ teardowns[h] = 1)

\* the idle watcher has torn its cluster down and is about to return
C11_Witness ==
    \E h \in Handles :
        /\ pc[IW(h)] = "sd_ret" /\ tgt[IW(h)] = h
        /\ state[h] = "SHUTDOWN" /\ teardowns[h] = 1 /\ cancels[h] = 1

\* C12: once is_shutdown of its handle is true (whoever set it), the idle
\* watcher's next poll ends the watcher: it reads no idle time, does not go
\* for the lock, calls no shutdown and changes nothing of the cluster; and the
\* watcher never enters shutdown on a handle whose is_shutdown is true.
C12_WatcherStandsDown ==
    [][ \A h \in Handles :
          /\ (IwPoll(h) /\ is_shutdown[h]) =>
                /\ pc'[IW(h)] = "off"
                /\ UNCHANGED <<state, is_shutdown, job, head, workers, cancels,
                               teardowns, active_ray_cluster, rwlock_owner,
                               ray_address, tgt>>
          /\ (pc[IW(h)] # "sd_check" /\ pc'[IW(h)] = "sd_check") =>
                (~is_shutdown[h] /\ ~is_shutdown[tgt'[IW(h)]]) ]_vars

\* the user's shutdown of the handle has completed while its idle watcher,
\* started with the cluster, is still between two polls
C12_Witness ==
    \E h \in Handles :
        /\ is_shutdown[h] /\ state[h] = "SHUTDOWN"
        /\ pc[IW(h)] = "poll"
        /\ pc[U] = "idle" /\ last_call = "shutdown"

(***************************************************************************)
(* Properties of create's failure paths.                                   *)
(***************************************************************************)

\* C13: when the head node does not become reachable in time, create cancels
\* the background job it submitted and fails with the startup-timeout error;
\* the slot is left as it was, the handle stays CREATING and is never
\* installed or made ACTIVE later, and on_cluster_created is not invoked for
\* it (none of its watchers is started).
C13_StartupTimeoutClean ==
    [][ /\ StartupTimeout =>
              /\ res' = "startup_timeout"
              /\ cancels'[tgt[U]] = cancels[tgt[U]] + 1
              /\ job'[tgt[U]] # "running"
              /\ state'[tgt[U]] = "CREATING"
              /\ pc'[IW(tgt[U])] = "off" /\ pc'[LW(tgt[U])] = "off"
              /\ UNCHANGED <<active_ray_cluster, ray_address>>
        /\ \A h \in Handles :
              (state[h] = "CREATING" /\ tgt[U] # h) =>
                 /\ state'[h] = "CREATING"
                 /\ active_ray_cluster' # h
                 /\ pc'[IW(h)] = "off" /\ pc'[LW(h)] = "off" ]_vars

\* a create has failed with the startup timeout and a later create has
\* installed another handle
C13_Witness ==
    \E h, g \in Handles :
        /\ state[h] = "CREATING" /\ cancels[h] = 1 /\ job[h] = "cancelled"
        /\ tgt[U] # h
        /\ g # h /\ state[g] = "ACTIVE" /\ active_ray_cluster = g

\* C14: a create() that fails with an invalid-argument error (a bad node
\* count, a non-positive total, a negative idle timeout) leaves the process as
\* it was before the call: the slot is unchanged, the call leaves no handle
\* ACTIVE and no background job running, and no watcher of it is running.
C14_NoPartialSideEffects ==
    [][ /\ (SetupRayCluster /\ pc'[U] = "idle" /\ res' = "ValueError") =>
              UNCHANGED <<state, is_shutdown, job, head, workers, cancels,
                          teardowns, active_ray_cluster, ray_address, pc>>
        /\ (HeadReachable /\ res' = "ValueError") =>
              /\ active_ray_cluster' = active_ray_cluster
              /\ state'[tgt[U]] # "ACTIVE"
              /\ job'[tgt[U]] # "running"
              /\ pc'[IW(tgt[U])] = "off" /\ pc'[LW(tgt[U])] = "off" ]_vars

CalcCalled == call.fn = "calc_mem_per_ray_worker_node"
CalcSlots == call.args[1]
CalcPhysical == call.args[2]
CalcShared == call.args[3]
CalcRatio == call.args[4]
CalcHeap == ret.val[1]
CalcObjectStore == ret.val[2]

\* C16: for num_task_slots >= 1, non-negative physical and shared bytes and
\* every ratio the function takes, the returned pair has heap >= 0,
\* object_store >= 0 and heap + object_store <= physical_mem_bytes.
C16_MemoryBound ==
    (CalcCalled /\ CalcSlots >= 1) =>
        /\ ret.kind = "ok"
        /\ CalcHeap >= 0
        /\ CalcObjectStore >= 0
        /\ CalcHeap + CalcObjectStore <= CalcPhysical

\* floor(mem / slots * 0.8) for mem >= 0 and slots >= 1, as the contract
\* writes it
UsableMem(mem, slots) == (mem * 8) \div (slots * 10)

\* min(usable_physical * n / d, usable_shared) as a fraction over d
MinOverD(usable_physical, usable_shared, n, d) ==
    IF usable_physical * n <= usable_shared * d THEN usable_physical * n
                                                 ELSE usable_shared * d

C18_BadSlotCountFails ==
    (CalcCalled /\ CalcSlots <= 0) => ret.kind # "ok"

\* the arguments of the call of get_target_spark_tasks in progress
TargetCalled == call.fn = "get_target_spark_tasks"
TargetMaxConcurrent == call.args[1]
TargetExplicit == call.args[6]
\* the totals of the call, each with its per-node amount
TargetTotals == {<<call.args[7], call.args[2]>>, <<call.args[8], call.args[3]>>,
                 <<call.args[9], call.args[4]>>, <<call.args[10], call.args[5]>>}
TargetProvided == {tp \in TargetTotals : tp[1] # None}

\* C19: with an explicit node count, get_target_spark_tasks returns
\* max_concurrent_tasks for -1, the count itself for a positive count, and
\* raises ValueError for 0 and for every negative count other than -1,
\* whatever totals are passed along.
C19_ExplicitCount ==
    (TargetCalled /\ TargetExplicit # None) =>
        LET n == TargetExplicit[1]
        IN  /\ n = -1 => ret = Ok(<<TargetMaxConcurrent>>)
            /\ n >= 1 => ret = Ok(<<n>>)
            /\ (n = 0 \/ n < -1) => ret.kind = "ValueError"

\* an explicit -1 resolved to the scheduler's maximum, which differs from
\* what the totals passed along would give
C19_Witness ==
    /\ TargetCalled
    /\ TargetExplicit = Some(-1)
    /\ TargetMaxConcurrent = MaxConcurrentTasks
    /\ call.args[7] = Some(MaxTotal) /\ call.args[2] = 1
    /\ ret = Ok(<<MaxConcurrentTasks>>)

\* max(1, ceil(total_X / per_node_X) over the provided totals)
ExpectedNodeCount ==
    LET candidates == {1} \cup {CeilOfQuotient(tp[1][1], tp[2]) : tp \in TargetProvided}
    IN  CHOOSE m \in candidates : \A c \in candidates : c <= m

\* C20: without an explicit node count, and with every provided total
\* positive and its per-node amount positive, the resolved node count is the
\* maximum of 1 and ceil(total_X / per_node_X) over the provided totals.
C20_DerivedCountIsMax ==
    ( /\ TargetCalled
      /\ TargetExplicit = None
      /\ \A tp \in TargetProvided : tp[1][1] > 0 /\ tp[2] > 0 )
    => ret = Ok(<<ExpectedNodeCount>>)

\* C21: with neither an explicit node count nor any total, the resolution
\* succeeds and returns 1, the seed of the candidate list.
C21_DefaultCountIsOne ==
    (TargetCalled /\ TargetExplicit = None /\ TargetProvided = {}) =>
        ret = Ok(<<1>>)

\* C22: when the node count N is derived from the totals, N * per_node_X >=
\* total_X for every provided total X with a positive per-node amount, all at
\* once.
C22_EveryFloorMet ==
    (TargetCalled /\ TargetExplicit = None /\ ret.kind = "ok") =>
        \A tp \in TargetProvided :
            tp[2] > 0 => ret.val[1] * tp[2] >= tp[1][1]

\* two totals that imply different counts, neither a multiple of its
\* per-node amount: 3 CPUs at 2 per node and 4 object-store bytes at 3 per
\* node are both met by the derived count
C22_Witness ==
    /\ TargetCalled /\ TargetExplicit = None
    /\ call.args[7] = Some(3) /\ call.args[2] = 2
    /\ call.args[8] = None /\ call.args[9] = Some(1)
    /\ call.args[10] = Some(3) /\ call.args[5] = 3
    /\ ret = Ok(<<2>>)

\* C23: with no explicit node count, a provided total that is <= 0 makes
\* get_target_spark_tasks raise ValueError, whatever the other totals are.
C23_NonPositiveTotalRejected ==
    ( /\ TargetCalled
      /\ TargetExplicit = None
      /\ \E tp \in TargetProvided : tp[1][1] <= 0 )
    => ret.kind = "ValueError"

\* the arguments and the result of the create in progress
NodesCalled == call.fn = "ray_worker_nodes"
NodesRequested == call.args[4]
NodesCpu == call.args[3]
NodesHostable == MaxHostable(call.args[1], call.args[3], call.args[2])

C26_StaleLockRecovery ==
    [][ \A p \in Procs :
          (lpc[p] = "raise_timeout" /\ lpc'[p] # "raise_timeout") =>
              ~file_exists' ]_vars

\* C27: a bootstrap process whose locking has failed for good does not go on
\* to port selection: it never returns normally from the barrier without a
\* lock descriptor.
C27_LockFailureIsFatal ==
    \A p \in Procs : lock_fd[p] = "None" => lpc[p] # "returned"

\* every started releaser thread is scheduled and its sleep ends; every
\* process that has the lock goes on to start its releaser
FairLock ==
    /\ SpecLock
    /\ \A p \in Procs : WF_vars(StartReleaserAndReturn(p))
    /\ \A p \in Procs : WF_vars(HoldLockAndRelease(p))

\* C28: an acquired lock stays held after the acquiring call has returned and
\* is given up only by the releaser thread once its sleep is over, which also
\* closes the descriptor; no other bootstrap acquires the lock while it is
\* held; and every acquired lock is eventually released.
C28_GraceWindow ==
    /\ [][ \A p \in Procs :
             /\ (flock_held[p] /\ ~flock_held'[p]) =>
                    /\ lpc[p] = "returned"
                    /\ releaser[p] = "sleeping" /\ releaser'[p] = "done"
                    /\ fd'[p] = "closed"
             /\ (lpc[p] = "start_thread" /\ lpc'[p] = "returned" /\ flock_held[p]) =>
                    flock_held'[p]
             /\ flock_held[p] =>
                    \A q \in Procs \ {p} : ~flock_held'[q] \/ ~flock_held'[p] ]_vars
    /\ \A p \in Procs : flock_held[p] ~> (~flock_held[p] /\ fd[p] = "closed")

\* the holder has returned to its bootstrap routine and still holds the lock
\* in its grace window while another process is being refused
C28_Witness ==
    \E p, q \in Procs :
        /\ p # q
        /\ lpc[p] = "returned" /\ releaser[p] = "sleeping" /\ flock_held[p]
        /\ lpc[q] = "flock" /\ lock_iter[q] >= 1

\* C29: the first call of _get_start_hook returns a hook of the class named
\* by RAY_ON_SPARK_START_HOOK when it is set, else the Databricks hook when the
\* Databricks runtime is detected, else the no-op default; every later call
\* returns the very object the call before it returned, whatever the override
\* and the runtime marker have become.
C29_HookSelectedOnce ==
    [][ GetStartHook =>
          /\ hook_ret' # None
          /\ hook_ret = None =>
               hook_ret'[1][1] =
                   IF environ_hook # None THEN environ_hook[1]
                   ELSE IF databricks_runtime
                          THEN "DefaultDatabricksRayOnSparkStartHook"
                          ELSE "RayOnSparkStartHook"
          /\ hook_ret # None => hook_ret' = hook_ret ]_vars

\* the Databricks hook was chosen by the first call and is still what the
\* last call returned, with an override now set and the runtime marker gone
C29_Witness ==
    /\ hook_calls = MaxHookCalls
    /\ hook_ret # None
    /\ hook_ret[1][1] = "DefaultDatabricksRayOnSparkStartHook"
    /\ environ_hook = Some("hooks.HookB")
    /\ ~databricks_runtime

\* the arguments of the call of on_cluster_created in progress
CreatedCalled == call.fn = "on_cluster_created"
CreatedEntryPointFails == ~call.args[1]
CreatedRegistrationFails == ~call.args[2] /\ ~call.args[3]
CreatedMinutes == call.args[4]

\* C30: if the registration of the background job with the host session
\* fails in on_cluster_created, be it the registration call or the obtaining
\* of the host API entry point, no error reaches the caller and the handling
\* of the idle timeout still runs (with a timeout that is not negative it ends
\* with the watcher started, disabled, or left out for want of the idle query).
C30_RegistrationFailureNonFatal ==
    ( /\ CreatedCalled
      /\ CreatedEntryPointFails \/ CreatedRegistrationFails
      /\ CreatedMinutes >= 0 )
    => /\ ret.kind = "ok"
       /\ ret.val[2] \in {"watcher", "disabled", "no_idle_query"}

(***************************************************************************)
(* C31..C40                                                                *)
(***************************************************************************)

\* the steps in which the idle watcher of handle h begins a teardown
IdleTeardownBegins(h) ==
    /\ pc[IW(h)] # "sd_check"
    /\ pc'[IW(h)] = "sd_check"

\* C31: when the idle-time query fails while the cluster is set up with a
\* positive idle timeout, no idle watcher is started, create ends without
\* error and the cluster is ACTIVE; a watcher leaves "off" only in a create
\* whose idle-time query worked, and only a started watcher begins an idle
\* teardown, so this cluster is never shut down by an idle trigger
C31_IdleQueryUnavailable ==
    [][/\ \A global_mode \in BOOLEAN, register_ok \in BOOLEAN, minutes \in AutoShutdownMinutes :
            (minutes > 0 /\ HeadReachableWith(TRUE, global_mode, register_ok, minutes, FALSE))
                => /\ res' = "ok"
                   /\ state'[tgt[U]] = "ACTIVE"
                   /\ pc'[IW(tgt[U])] = "off"
       /\ \A h \in Handles :
            (pc[IW(h)] = "off" /\ pc'[IW(h)] # "off")
                => \E global_mode \in BOOLEAN, register_ok \in BOOLEAN,
                      minutes \in AutoShutdownMinutes :
                        /\ minutes > 0
                        /\ tgt[U] = h
                        /\ HeadReachableWith(TRUE, global_mode, register_ok, minutes, TRUE)
       /\ \A h \in Handles :
            IdleTeardownBegins(h) => pc[IW(h)] = "lock" /\ tgt'[IW(h)] = h
      ]_vars

\* a cluster created without idle watcher is ACTIVE and create returned
\* without error, its liveness watcher polling
C31_Witness ==
    \E h \in Handles :
        /\ state[h] = "ACTIVE"
        /\ active_ray_cluster = h
        /\ pc[IW(h)] = "off"
        /\ pc[LW(h)] = "poll"
        /\ pc[U] = "idle"
        /\ res = "ok"
        /\ last_call = "create"

\* C32: in the create step that runs on_cluster_created with the entry point
\* obtained: with 0 minutes no idle watcher is started, whatever the idle
\* query would do (it is not asked), and create ends without error; with a
\* negative value create ends with ValueError and no watcher; with a positive
\* value and a working idle query the watcher of the created handle, and of no
\* other handle, is started.  A handle is created once (it never returns to
\* CREATING) and a watcher is started only in the create step of its own
\* handle, so a created cluster has exactly one watcher
C32_IdleTimeoutConfiguration ==
    [][/\ \A global_mode \in BOOLEAN, register_ok \in BOOLEAN, minutes \in AutoShutdownMinutes,
            idle_query_ok \in BOOLEAN :
            HeadReachableWith(TRUE, global_mode, register_ok, minutes, idle_query_ok)
                => /\ minutes = 0 => /\ pc'[IW(tgt[U])] = "off"
                                     /\ res' = "ok"
                                     /\ HeadReachableWith(TRUE, global_mode, register_ok,
                                                          minutes, ~idle_query_ok)
                   /\ minutes < 0 => /\ pc'[IW(tgt[U])] = "off"
                                     /\ res' = "ValueError"
                   /\ (minutes > 0 /\ idle_query_ok)
                        => /\ pc'[IW(tgt[U])] = "poll"
                           /\ res' = "ok"
                   /\ \A g \in Handles \ {tgt[U]} : pc'[IW(g)] = pc[IW(g)]
       /\ \A h \in Handles :
            /\ (pc[IW(h)] = "off" /\ pc'[IW(h)] # "off")
                 => /\ HeadReachable
                    /\ tgt[U] = h
                    /\ state[h] = "CREATING"
            /\ (state[h] # "CREATING" /\ state'[h] = "CREATING") => state[h] = "NONE"
            /\ state[h] # "NONE" => state'[h] # "NONE"
            /\ IdleTeardownBegins(h) => pc[IW(h)] = "lock"
      ]_vars

\* a cluster was created with a positive idle timeout and a working idle
\* query: its watcher polls, and no other handle has a watcher running
C32_Witness ==
    \E h \in Handles :
        /\ state[h] = "ACTIVE"
        /\ active_ray_cluster = h
        /\ pc[IW(h)] = "poll"
        /\ \A g \in Handles \ {h} : pc[IW(g)] = "off"
        /\ pc[U] = "idle"
        /\ res = "ok"
        /\ last_call = "create"

C34_WatcherOwnClusterOnly ==
    [][\A h \in Handles :
        /\ IwLock(h) =>
             /\ rwlock_owner \in {NoThread, IW(h)}
             /\ IF active_ray_cluster = h
                  THEN /\ pc'[IW(h)] = "sd_check"
                       /\ tgt'[IW(h)] = h
                       /\ rwlock_owner' = IW(h)
                  ELSE /\ pc'[IW(h)] = "skipped"
                       /\ UNCHANGED <<state, is_shutdown, job, head, workers, cancels,
                                      teardowns, active_ray_cluster, ray_address,
                                      rwlock_owner, rwlock_depth, tgt>>
        /\ pc[IW(h)] = "skipped" => pc'[IW(h)] = "skipped"
        /\ (pc'[IW(h)] # pc[IW(h)] /\ pc[IW(h)] # "off")
             => \A g \in Handles \ {h} :
                  /\ state'[g] = state[g]
                  /\ is_shutdown'[g] = is_shutdown[g]
                  /\ cancels'[g] = cancels[g]
                  /\ teardowns'[g] = teardowns[g]
                  /\ head'[g] = head[g]
                  /\ active_ray_cluster = g => active_ray_cluster' = g
      ]_vars

\* the watcher of a cluster that was shut down meanwhile found the newer
\* cluster in the slot and ended; the newer cluster is ACTIVE, untouched, its
\* own watcher polling
C34_Witness ==
    \E h \in Handles, g \in Handles :
        /\ g # h
        /\ pc[IW(h)] = "skipped"
        /\ state[h] = "SHUTDOWN"
        /\ active_ray_cluster = g
        /\ state[g] = "ACTIVE" /\ ~is_shutdown[g] /\ head[g] = "up"
        /\ teardowns[g] = 0
        /\ pc[IW(g)] = "poll"

\* C35: a pass of the idle watcher that reads an idle time less than or
\* equal to the threshold (auto_shutdown_minutes * 60 * 1000 ms), the handle
\* not shut down, leaves the watcher polling and changes nothing; the watcher
\* goes for the lock only in a pass that read an idle time above the
\* threshold, and begins a teardown only from there: so it never triggers
\* shutdown while all its readings were at or below the threshold
C35_NoShutdownAtOrBelowThreshold ==
    [][\A h \in Handles :
        /\ \A idle_time \in IdleReadings :
             (IwPollWith(h, idle_time) /\ ~is_shutdown[h]
                                        /\ idle_time <= auto_shutdown_minutes * 60 * 1000)
                => /\ pc'[IW(h)] = "poll"
                   /\ UNCHANGED <<state, is_shutdown, job, head, workers, cancels,
                                  teardowns, active_ray_cluster, ray_address,
                                  rwlock_owner, tgt>>
        /\ (pc[IW(h)] # "lock" /\ pc'[IW(h)] = "lock")
             => \E idle_time \in IdleReadings :
                  /\ idle_time > auto_shutdown_minutes * 60 * 1000
                  /\ IwPollWith(h, idle_time)
        /\ IdleTeardownBegins(h) => pc[IW(h)] = "lock"
        /\ (teardowns'[h] # teardowns[h] /\ pc[IW(h)] = "poll")
             => \A t \in Threads : tgt[t] = h => t # IW(h)
      ]_vars

\* a watcher is polling an ACTIVE, untouched cluster (the readings it has
\* made so far, if any, were at or below the threshold)
C35_Witness ==
    \E h \in Handles :
        /\ pc[IW(h)] = "poll"
        /\ state[h] = "ACTIVE" /\ ~is_shutdown[h]
        /\ teardowns[h] = 0 /\ cancels[h] = 0
        /\ rwlock_owner = NoThread
        /\ \A t \in Threads : tgt[t] # h

C37_EndsHoldingLockOrFailed ==
    [][ \A p \in Procs :
          (lpc[p] \notin {"returned", "failed"} /\ lpc'[p] \in {"returned", "failed"})
             => /\ lock_iter'[p] <= max_lock_iter
                /\ lpc'[p] = "failed" \/ flock_held'[p] ]_vars

\* C38: every call of get_target_spark_tasks ends with an integer node count
\* of at least 1 or with ValueError, and with no other kind of failure
C38_ResolutionIsTotal ==
    TargetCalled =>
        IF ret.kind = "ok" THEN ret.val[1] >= 1 ELSE ret.kind = "ValueError"

\* the values the totals may take in a call with an explicit count: absent,
\* positive, zero and negative
AnyTotals == {None} \cup {Some(n) : n \in (-MaxTotal)..MaxTotal}

\* C39: with an explicit node count the result of get_target_spark_tasks,
\* whatever totals the call passed, is the result for that count and
\* max_concurrent_tasks with the four totals all absent, all positive, all
\* zero or all negative and with any per-node amounts, and also with one
\* total of the call replaced by any such value: the totals are neither
\* validated nor used
C39_ExplicitOverridesTotals ==
    (TargetCalled /\ TargetExplicit # None) =>
        /\ \A total \in AnyTotals, num_spark_task_cpus \in TaskCpus,
              num_spark_task_gpus \in TaskGpus :
               ret = get_target_spark_tasks(TargetMaxConcurrent, num_spark_task_cpus,
                                            num_spark_task_gpus, call.args[4], call.args[5],
                                            TargetExplicit, total, total, total, total)
        /\ \A total \in AnyTotals :
               ret = get_target_spark_tasks(TargetMaxConcurrent, call.args[2], call.args[3],
                                            call.args[4], call.args[5], TargetExplicit,
                                            call.args[7], total, call.args[9], call.args[10])

\* a positive explicit count was returned as it is although a total of 0 and
\* a per-node GPU amount of 0 were passed along
C39_Witness ==
    /\ TargetCalled
    /\ TargetExplicit = Some(MaxTotal)
    /\ call.args[7] = Some(0)
    /\ call.args[8] = Some(1) /\ call.args[3] = 0
    /\ ret = Ok(<<MaxTotal>>)

(***************************************************************************)
(* Part 5: the port selection.                                             *)
(*                                                                         *)
(* The random generator and the probe are the environment's: a call is     *)
(* given the stream of draws it would see, each a port of                  *)
(* [min_port, max_port] with the answer check_port_open would give for it. *)
(* The stream is one draw longer than the largest max_retries, and the     *)
(* result carries the number of draws the call has used.                   *)
(***************************************************************************)

\* utils.py:155, the default of min_port
min_port == 1024
MaxPorts == min_port..(min_port + MaxPortSpan)
RetryCounts == 0..MaxRetries

\* exclude_list: None, or a list of ports (its order and repetitions do not
\* matter to "port in exclude_list")
ExcludeLists(max_port) == {None} \cup {Some(ports) : ports \in SUBSET (min_port..max_port)}

\* rng.randint(min_port, max_port) with the answer of check_port_open for the
\* port drawn: TRUE when connect_ex returns 0
Draws(max_port) == (min_port..max_port) \X BOOLEAN
DrawStreams(max_port) == [1..(MaxRetries + 1) -> Draws(max_port)]

\* "exclude_list = exclude_list or []"
exclude_list_or_empty(exclude_list) ==
    IF exclude_list = None THEN {} ELSE exclude_list[1]

\* a selection that does not look at the exclude list
PortExcludedNever(port, exclude_list) == FALSE

\* "if port in exclude_list: continue"
PortExcluded(port, exclude_list) == port \in exclude_list_or_empty(exclude_list)

\* "if not check_port_open(host, port): return port"
PortFoundUnused(open) == ~open

\* the RuntimeError raised after the loop, with the number of draws used
RaiseAfter(e, draws_used) == [kind |-> e, val |-> <<draws_used>>]

\* "for _ in range(max_retries)"
RetriesLeft(draws_used, max_retries) == draws_used < max_retries

\* the loop of get_random_unused_port from its iteration draws_used + 1 on;
\* the result is the port with the number of draws used, or RuntimeError
RECURSIVE port_loop(_, _, _, _)
port_loop(draws_used, max_retries, exclude_list, draws) ==
    IF ~RetriesLeft(draws_used, max_retries)
      THEN RaiseAfter("RuntimeError", draws_used)
      ELSE LET port == draws[draws_used + 1][1]
               open == draws[draws_used + 1][2]
           IN  IF PortExcluded(port, exclude_list)
                 THEN port_loop(draws_used + 1, max_retries, exclude_list, draws)
               ELSE IF PortFoundUnused(open)
                 THEN Ok(<<port, draws_used + 1>>)
               ELSE port_loop(draws_used + 1, max_retries, exclude_list, draws)

\* utils.py:155-169
get_random_unused_port(max_retries, exclude_list, draws) ==
    port_loop(0, max_retries, exclude_list, draws)

\* a call of get_random_unused_port
GetRandomUnusedPort ==
    /\ call = NoCall
    /\ \E max_port \in MaxPorts, max_retries \in RetryCounts :
         \E exclude_list \in ExcludeLists(max_port), draws \in DrawStreams(max_port) :
            /\ call' = [fn |-> "get_random_unused_port",
                        args |-> <<min_port, max_port, max_retries, exclude_list, draws>>]
            /\ ret' = get_random_unused_port(max_retries, exclude_list, draws)
    /\ UNCHANGED <<lockVars, clusterVars, hookVars>>

PortNext ==
    \/ GetRandomUnusedPort
    \/ SizerReturn

SpecPort == Init /\ [][PortNext]_vars

\* the arguments of the call of get_random_unused_port in progress
PortCalled == call.fn = "get_random_unused_port"
PortMaxPort == call.args[2]
PortMaxRetries == call.args[3]
PortExcludeList == exclude_list_or_empty(call.args[4])
PortDraws == call.args[5]
\* the draws of the call that yield a port: not excluded and found not open
PortYielding ==
    {i \in 1..PortMaxRetries :
        PortDraws[i][1] \notin PortExcludeList /\ ~PortDraws[i][2]}

\* C40: get_random_unused_port uses at most max_retries draws; a port it
\* returns is the port of the draw it ended with, lies in
\* [min_port, max_port], is not in exclude_list and was found not open by
\* the probe of that draw, which is the first such draw; when none of the
\* max_retries draws yields such a port, excluded draws counting as draws, it
\* raises RuntimeError and returns no port
C40_PortSelection ==
    PortCalled =>
        /\ ret.kind \in {"ok", "RuntimeError"}
        /\ ret.kind = "ok" =>
             LET port == ret.val[1]
                 draws_used == ret.val[2]
             IN  /\ draws_used \in 1..PortMaxRetries
                 /\ port \in min_port..PortMaxPort
                 /\ port \notin PortExcludeList
                 /\ PortDraws[draws_used] = <<port, FALSE>>
                 /\ \A i \in PortYielding : draws_used <= i
        /\ ret.kind = "RuntimeError" <=> PortYielding = {}
        /\ ret.kind = "RuntimeError" => ret.val[1] <= PortMaxRetries

\* the first draw hit the exclude list, the second an open port, and the
\* draw after the last permitted one would have yielded a port: the call
\* failed with RuntimeError after max_retries draws
C40_Witness ==
    /\ PortCalled
    /\ PortMaxRetries = 2
    /\ PortDraws[1][1] \in PortExcludeList /\ ~PortDraws[1][2]
    /\ PortDraws[2][1] \notin PortExcludeList /\ PortDraws[2][2]
    /\ PortDraws[3][1] \notin PortExcludeList /\ ~PortDraws[3][2]
    /\ ret = RaiseAfter("RuntimeError", 2)

====
